---- MODULE Spec2Model ----
(***************************************************************************)
(* Daemon-Swipe: the touchpad gesture daemon of src/main.cpp.              *)
(*                                                                         *)
(* The control loop of main() alternates between draining the libinput     *)
(* event queue (swipe / pinch / hold handlers) and one ImGui frame (the    *)
(* "Add" button, the prune and re-sync of the bindings, the eight combo    *)
(* boxes).  The model keeps the program's globals and function statics as  *)
(* variables, one action per event handler and per kind of frame.          *)
(*                                                                         *)
(* Numbers.  swipe.dx, swipe.dy, pinch.dx and pinch.dy are C++ doubles and *)
(* "+=" on them rounds to the nearest representable value.  TLC has no     *)
(* floating point, so a double is modelled as a binary floating-point      *)
(* number with Precision significand bits (binary64 has 53) whose finest   *)
(* spacing is 1: every integer of magnitude below 2^Precision is exact and *)
(* larger magnitudes are rounded to nearest, ties to even, exactly as      *)
(* binary64 does above 2^53.  pinch.scale is kept as an exact fraction.    *)
(***************************************************************************)
EXTENDS Integers, Sequences, FiniteSets, TLC

VARIABLES
    swipe,                     \* SwipeGesture swipe            (main.cpp:96)
    pinch,                     \* PinchGesture pinch            (main.cpp:97)
    gesture_bindings,          \* std::map key -> command       (main.cpp:99)
    selected_command_indices,  \* std::map key -> int           (main.cpp:100)
    user_commands,             \* static vector<string>         (main.cpp:368)
    pc,                        \* position in the control loop  (main.cpp:176)
    pending,                   \* types of the events libinput_get_event has
                               \* yet to return, oldest first
    executed,                  \* commands handed to std::system, in order
    lastOp,                    \* history: the last input handled and its outcome
    steps,                     \* history: number of inputs handled
    exact,                     \* history: the exact sums of the swipe updates
    lastPruned                 \* history: the keys the last frame's prune erased

vars == << swipe, pinch, gesture_bindings, selected_command_indices,
           user_commands, pc, pending, executed, lastOp, steps, exact,
           lastPruned >>

----------------------------------------------------------------------------
(* Bounds of the model *)

\* significand bits of the modelled floating-point format
Precision == 7

\* inputs (device events and clicks) handled in one run of the whole program
MaxSteps == 4

\* swipe events handled in one run in which only swipe events arrive
MaxSwipeSteps == 5

\* events one libinput_dispatch() makes available
MaxBatch == 2

\* pinch events handled in one run in which only pinch events arrive
MaxPinchSteps == 4

\* clicks made in one run that starts from an arbitrary table
MaxConfigSteps == 2

----------------------------------------------------------------------------
(* Floating-point accumulation *)

RECURSIVE Pow2(_)
Pow2(n) == IF n = 0 THEN 1 ELSE 2 * Pow2(n - 1)

\* first magnitude whose neighbours are more than 1 apart
Big == Pow2(Precision)

Abs(x) == IF x < 0 THEN -x ELSE x

\* distance between neighbouring representable values at magnitude a
RECURSIVE Ulp(_)
Ulp(a) == IF a < Big THEN 1 ELSE 2 * Ulp(a \div 2)

\* round-to-nearest, ties-to-even, of a magnitude a >= 0
RoundMag(a) ==
    LET u == Ulp(a)
        q == a \div u
        r == a % u
    IN  IF 2 * r < u THEN q * u
        ELSE IF 2 * r > u THEN (q + 1) * u
        ELSE IF q % 2 = 0 THEN q * u ELSE (q + 1) * u

RoundToDouble(x) == IF x < 0 THEN -RoundMag(-x) ELSE RoundMag(x)

\* a value is representable when rounding leaves it alone
Representable(x) == RoundToDouble(x) = x

\* faulty variant: "=" written for "+="
AssignInsteadOfAdd(x, y) == y

\* x += y on doubles
AddDouble(x, y) == RoundToDouble(x + y)

----------------------------------------------------------------------------
(* Exact fractions <<numerator, denominator>> for pinch.scale *)

RECURSIVE Gcd(_, _)
Gcd(a, b) == IF b = 0 THEN a ELSE Gcd(b, a % b)

Frac(n, d) == LET g == Gcd(n, d) IN << n \div g, d \div g >>

\* scale *= step
MulScale(s, t) == Frac(s[1] * t[1], s[2] * t[2])

\* s > n/d   and   s < n/d
FracGt(s, n, d) == s[1] * d > n * s[2]
FracLt(s, n, d) == s[1] * d < n * s[2]

----------------------------------------------------------------------------
(* The action catalog and the binding table *)

\* const std::vector<std::string> predefined_commands
predefined_commands ==
    << "None",
       "notify-send 'Gesture Triggered'",
       "gnome-terminal",
       "google-chrome",
       "playerctl play-pause",
       "playerctl next",
       "playerctl previous" >>

\* all_commands = predefined_commands followed by user_commands
AllCommands(uc) == predefined_commands \o uc

Range(seq) == { seq[i] : i \in 1..Len(seq) }

\* std::find: the first position of x in seq (1-based), Len(seq)+1 for end()
RECURSIVE FindFrom(_, _, _)
FindFrom(seq, x, i) ==
    IF i > Len(seq) THEN Len(seq) + 1
    ELSE IF seq[i] = x THEN i
    ELSE FindFrom(seq, x, i + 1)

Find(seq, x) == FindFrom(seq, x, 1)

\* const std::vector<std::string> directions
directions == << "LEFT", "RIGHT", "UP", "DOWN" >>

\* the keys in the order of the display loops: for fingers in {3,4}, for dir
DisplayKeys ==
    << <<3, "LEFT">>, <<3, "RIGHT">>, <<3, "UP">>, <<3, "DOWN">>,
       <<4, "LEFT">>, <<4, "RIGHT">>, <<4, "UP">>, <<4, "DOWN">> >>

\* the same keys in std::map iteration order (pairs compared lexicographically)
MapOrder ==
    << <<3, "DOWN">>, <<3, "LEFT">>, <<3, "RIGHT">>, <<3, "UP">>,
       <<4, "DOWN">>, <<4, "LEFT">>, <<4, "RIGHT">>, <<4, "UP">> >>

Keys == Range(DisplayKeys)

NoKey == << 0, "" >>

EmptyMap == [k \in {} |-> ""]

\* map.erase(key)
Erase(m, k) == [x \in (DOMAIN m) \ {k} |-> m[x]]

\* map[key] = v
Put(m, k, v) == [x \in (DOMAIN m) \cup {k} |-> IF x = k THEN v ELSE m[x]]

\* lookupBinding: the command bound to k, "" when k is unbound
Lookup(m, k) == IF k \in DOMAIN m THEN m[k] ELSE ""

\* faulty variant: the test of the prune loop is inverted
RECURSIVE PruneFromInverted(_, _, _)
PruneFromInverted(b, cmds, i) ==
    IF i > Len(MapOrder) THEN b
    ELSE LET k == MapOrder[i] IN
         IF k \in DOMAIN b /\ Find(cmds, b[k]) # Len(cmds) + 1
         THEN PruneFromInverted(Erase(b, k), cmds, i + 1)
         ELSE PruneFromInverted(b, cmds, i + 1)

\* the prune loop: walk the map, erase the entries whose command is not found
RECURSIVE PruneFrom(_, _, _)
PruneFrom(b, cmds, i) ==
    IF i > Len(MapOrder) THEN b
    ELSE LET k == MapOrder[i] IN
         IF k \in DOMAIN b /\ Find(cmds, b[k]) = Len(cmds) + 1
         THEN PruneFrom(Erase(b, k), cmds, i + 1)
         ELSE PruneFrom(b, cmds, i + 1)

pruneStaleBindingsInverted(b, cmds) == PruneFromInverted(b, cmds, 1)

pruneStaleBindings(b, cmds) == PruneFrom(b, cmds, 1)

\* sync_selected_commands: the 0-based position of each bound command
RECURSIVE SyncFrom(_, _, _, _)
SyncFrom(sel, b, cmds, i) ==
    IF i > Len(MapOrder) THEN sel
    ELSE LET k == MapOrder[i] IN
         IF k \in DOMAIN b /\ Find(cmds, b[k]) # Len(cmds) + 1
         THEN SyncFrom(Put(sel, k, Find(cmds, b[k]) - 1), b, cmds, i + 1)
         ELSE SyncFrom(sel, b, cmds, i + 1)

\* faulty variant: the 1-based position is stored
RECURSIVE SyncFromOneBased(_, _, _, _)
SyncFromOneBased(sel, b, cmds, i) ==
    IF i > Len(MapOrder) THEN sel
    ELSE LET k == MapOrder[i] IN
         IF k \in DOMAIN b /\ Find(cmds, b[k]) # Len(cmds) + 1
         THEN SyncFromOneBased(Put(sel, k, Find(cmds, b[k])), b, cmds, i + 1)
         ELSE SyncFromOneBased(sel, b, cmds, i + 1)

syncSelectedOneBased(sel, b, cmds) == SyncFromOneBased(sel, b, cmds, 1)

sync_selected_commands(sel, b, cmds) == SyncFrom(sel, b, cmds, 1)

\* faulty variant: the sentinel is bound like any other command
setBindingNoSentinel(b, key, cmd) == Put(b, key, cmd)

\* faulty variant: the binding is stored under the next finger count
setBindingNextFingers(b, key, cmd) ==
    IF cmd = "None" THEN Erase(b, key)
    ELSE Put(b, << key[1] + 1, key[2] >>, cmd)

\* faulty variant: a repeated selection toggles the binding off
setBindingToggle(b, key, cmd) ==
    IF cmd = "None" \/ Lookup(b, key) = cmd THEN Erase(b, key) ELSE Put(b, key, cmd)

\* faulty variant: the combo's label is stored instead of the chosen command
setBindingLabel(b, key, cmd) ==
    IF cmd = "None" THEN Erase(b, key) ELSE Put(b, key, "label")

\* faulty variant: "None" clears the whole table instead of erasing the key
setBindingClearOnNone(b, key, cmd) ==
    IF cmd = "None" THEN EmptyMap ELSE Put(b, key, cmd)

\* the body of the Selectable: erase on "None", else insert or overwrite
setBinding(b, key, cmd) ==
    IF cmd = "None" THEN Erase(b, key) ELSE Put(b, key, cmd)

\* faulty variant: the duplicate test is dropped
addCustomActionNoDedup(uc, cmd) ==
    IF cmd # "" THEN Append(uc, cmd) ELSE uc

\* faulty variant: the new command is put in front of the earlier ones
addCustomActionFront(uc, cmd) ==
    IF cmd # "" /\ Find(uc, cmd) = Len(uc) + 1 THEN << cmd >> \o uc ELSE uc

\* the body of the "Add" button
addCustomAction(uc, cmd) ==
    IF cmd # "" /\ Find(uc, cmd) = Len(uc) + 1 THEN Append(uc, cmd) ELSE uc

----------------------------------------------------------------------------
(* Classification *)

\* the threshold of the swipe classification
Threshold == 50

\* faulty variant: ">=" written for ">" in the comparison of the two axes
ClassifyTieHorizontal(dx, dy) ==
    IF Abs(dx) >= Abs(dy)
    THEN IF dx > Threshold THEN "RIGHT"
         ELSE IF dx < -Threshold THEN "LEFT" ELSE ""
    ELSE IF dy > Threshold THEN "DOWN"
         ELSE IF dy < -Threshold THEN "UP" ELSE ""

\* the direction of a finished swipe, "" when there is none
Classify(dx, dy) ==
    IF Abs(dx) > Abs(dy)
    THEN IF dx > Threshold THEN "RIGHT"
         ELSE IF dx < -Threshold THEN "LEFT" ELSE ""
    ELSE IF dy > Threshold THEN "DOWN"
         ELSE IF dy < -Threshold THEN "UP" ELSE ""

\* faulty variant: the two thresholds themselves count as a zoom
ClassifyPinchInclusive(scale) ==
    IF ~FracLt(scale, 11, 10) THEN "zoom-in"
    ELSE IF ~FracGt(scale, 9, 10) THEN "zoom-out"
    ELSE "neutral"

\* the verdict of a finished pinch
ClassifyPinch(scale) ==
    IF FracGt(scale, 11, 10) THEN "zoom-in"
    ELSE IF FracLt(scale, 9, 10) THEN "zoom-out"
    ELSE "neutral"

----------------------------------------------------------------------------
(* Inputs *)

\* finger counts libinput reports at a swipe or pinch Begin
SwipeFingers == {3, 4, 5}
PinchFingers == {2}

\* (dx, dy) of a swipe Update
SwipeSamples ==
    { <<50, 0>>, <<1, 0>>, <<60, 60>>, <<40, 5>>, <<-20, -90>>,
      <<Big, 0>>, <<Threshold - Big, 0>> }

\* the samples without those that make the accumulators round
SwipeMotions == { <<50, 0>>, <<1, 0>>, <<60, 60>>, <<-20, -90>> }

\* (scale, dx, dy) of a pinch Update
PinchSamples ==
    { << <<6, 5>>, 0, 0 >>, << <<1, 1>>, 2, 1 >>, << <<1, 2>>, 0, 0 >>,
      << <<8, 5>>, -1, 3 >> }

\* libinput_event_get_type of the events handled
SwipeTypes == { "SWIPE_BEGIN", "SWIPE_UPDATE", "SWIPE_END" }
PinchTypes == { "PINCH_BEGIN", "PINCH_UPDATE", "PINCH_END" }
OtherGestureTypes == PinchTypes \cup { "HOLD_BEGIN", "HOLD_END", "OTHER" }

\* scale steps whose products land on and around the two thresholds
PinchScaleSteps ==
    { <<11, 10>>, <<9, 10>>, <<1, 1>>, <<6, 5>>, <<1, 2>>, <<8, 5>> }

\* the combo boxes the user opens
ClickKeys == { <<3, "RIGHT">>, <<4, "DOWN">> }

\* the entries the user clicks in an open combo box: "None", "gnome-terminal"
\* and the first two custom commands
ClickRows == { 0, 2, Len(predefined_commands), Len(predefined_commands) + 1 }

\* what the user types into "Custom Command" before pressing Add
CustomTexts == { "", "lock-screen", "gnome-terminal", "None" }

----------------------------------------------------------------------------
(* History *)

Op(kind, key, idx, cmd, before, report, wasActive) ==
    [ kind |-> kind, key |-> key, idx |-> idx, cmd |-> cmd,
      before |-> before, report |-> report, wasActive |-> wasActive ]

Event(kind, wasActive) == Op(kind, NoKey, 0, "", "", "", wasActive)

----------------------------------------------------------------------------
(* Initial state: the globals and statics as constructed *)

Init ==
    /\ swipe = [dx |-> 0, dy |-> 0, active |-> FALSE, fingers |-> 0]
    /\ pinch = [scale |-> <<1, 1>>, dx |-> 0, dy |-> 0, fingers |-> 0,
                active |-> FALSE]
    /\ gesture_bindings = EmptyMap
    /\ selected_command_indices = [k \in {} |-> 0]
    /\ user_commands = << >>
    /\ pc = "loop"
    /\ pending = << >>
    /\ executed = << >>
    /\ lastOp = Event("", FALSE)
    /\ steps = 0
    /\ exact = [dx |-> 0, dy |-> 0, ok |-> TRUE]
    /\ lastPruned = {}

config_vars == << gesture_bindings, selected_command_indices, user_commands,
                 lastPruned >>

----------------------------------------------------------------------------
(* The control loop *)

\* glfwWindowShouldClose(window): the loop ends
WindowClosed ==
    /\ pc = "loop"
    /\ pc' = "done"
    /\ UNCHANGED << swipe, pinch, config_vars, pending, executed, lastOp, steps,
                    exact >>

\* poll() reports nothing to read: straight to the frame
PollEmpty ==
    /\ pc = "loop"
    /\ pc' = "frame"
    /\ UNCHANGED << swipe, pinch, config_vars, pending, executed, lastOp, steps,
                    exact >>

\* poll() > 0 and libinput_dispatch() succeeds, leaving events to drain
PollReady(events) ==
    /\ pc = "loop"
    /\ pc' = "drain"
    /\ pending' = events
    /\ UNCHANGED << swipe, pinch, config_vars, executed, lastOp, steps, exact >>

\* libinput_dispatch() fails: break
DispatchFailed ==
    /\ pc = "loop"
    /\ pc' = "done"
    /\ UNCHANGED << swipe, pinch, config_vars, pending, executed, lastOp, steps,
                    exact >>

\* faulty variant: the drain is left while events are still pending
DrainDoneEarly ==
    /\ pc = "drain"
    /\ pc' = "frame"
    /\ UNCHANGED << swipe, pinch, config_vars, pending, executed, lastOp, steps,
                    exact >>

\* libinput_get_event() returns NULL: the drain is over
DrainDone ==
    /\ pc = "drain"
    /\ pending = << >>
    /\ pc' = "frame"
    /\ UNCHANGED << swipe, pinch, config_vars, pending, executed, lastOp, steps,
                    exact >>

----------------------------------------------------------------------------
(* Swipe events *)

\* faulty variant: a Begin during an active session keeps the accumulators
SwipeBeginKeepsMotion(f) ==
    /\ pc = "drain"
    /\ pending # << >> /\ Head(pending) = "SWIPE_BEGIN"
    /\ pending' = Tail(pending)
    /\ swipe' = IF swipe.active THEN [swipe EXCEPT !.fingers = f]
                ELSE [dx |-> 0, dy |-> 0, active |-> TRUE, fingers |-> f]
    /\ exact' = [dx |-> 0, dy |-> 0, ok |-> TRUE]
    /\ lastOp' = Op("SWIPE_BEGIN", << f, "" >>, 0, "", "", "", swipe.active)
    /\ steps' = steps + 1
    /\ UNCHANGED << pinch, config_vars, pc, executed >>

\* case LIBINPUT_EVENT_GESTURE_SWIPE_BEGIN
SwipeBegin(f) ==
    /\ pc = "drain"
    /\ pending # << >> /\ Head(pending) = "SWIPE_BEGIN"
    /\ pending' = Tail(pending)
    /\ swipe' = [dx |-> 0, dy |-> 0, active |-> TRUE, fingers |-> f]
    /\ exact' = [dx |-> 0, dy |-> 0, ok |-> TRUE]
    /\ lastOp' = Op("SWIPE_BEGIN", << f, "" >>, 0, "", "", "", swipe.active)
    /\ steps' = steps + 1
    /\ UNCHANGED << pinch, config_vars, pc, executed >>

\* case LIBINPUT_EVENT_GESTURE_SWIPE_UPDATE
SwipeUpdate(ddx, ddy) ==
    /\ pc = "drain"
    /\ pending # << >> /\ Head(pending) = "SWIPE_UPDATE"
    /\ pending' = Tail(pending)
    /\ swipe' = [swipe EXCEPT !.dx = AddDouble(swipe.dx, ddx),
                              !.dy = AddDouble(swipe.dy, ddy)]
    /\ exact' = [dx |-> exact.dx + ddx, dy |-> exact.dy + ddy,
                 ok |-> /\ exact.ok
                        /\ Representable(swipe.dx + ddx)
                        /\ Representable(swipe.dy + ddy)]
    /\ lastOp' = Event("SWIPE_UPDATE", swipe.active)
    /\ steps' = steps + 1
    /\ UNCHANGED << pinch, config_vars, pc, executed >>

\* faulty variant: the key is looked up with a fixed finger count
DispatchFixedFingers(b, fingers, direction) ==
    IF direction = "" THEN << << >>, "" >>
    ELSE IF << 4, direction >> \in DOMAIN b
         THEN << << b[<< 4, direction >>] >>, "Running command" >>
         ELSE << << >>, "No binding found" >>

\* faulty variant: the table is looked up even when there is no verdict
DispatchNoGuard(b, fingers, direction) ==
    IF << fingers, direction >> \in DOMAIN b
    THEN << << b[<< fingers, direction >>] >>, "Running command" >>
    ELSE << << >>, "No binding found" >>

\* the dispatch at the end of a swipe: <<commands executed, report>>
Dispatch(b, fingers, direction) ==
    IF direction = "" THEN << << >>, "" >>
    ELSE IF << fingers, direction >> \in DOMAIN b
         THEN << << b[<< fingers, direction >>] >>, "Running command" >>
         ELSE << << >>, "No binding found" >>

\* case LIBINPUT_EVENT_GESTURE_SWIPE_END
SwipeEnd ==
    /\ pc = "drain"
    /\ pending # << >> /\ Head(pending) = "SWIPE_END"
    /\ pending' = Tail(pending)
    /\ LET direction == Classify(swipe.dx, swipe.dy)
           d == Dispatch(gesture_bindings, swipe.fingers, direction)
       IN  /\ swipe' = [swipe EXCEPT !.active = FALSE]
           /\ executed' = executed \o d[1]
           /\ lastOp' = Op("SWIPE_END", << swipe.fingers, direction >>, 0,
                           IF d[1] = << >> THEN "" ELSE d[1][1],
                           Lookup(gesture_bindings, << swipe.fingers, direction >>),
                           d[2], swipe.active)
    /\ steps' = steps + 1
    /\ UNCHANGED << pinch, config_vars, pc, exact >>

----------------------------------------------------------------------------
(* Pinch, hold and other events *)

\* case LIBINPUT_EVENT_GESTURE_PINCH_BEGIN
PinchBegin(f) ==
    /\ pc = "drain"
    /\ pending # << >> /\ Head(pending) = "PINCH_BEGIN"
    /\ pending' = Tail(pending)
    /\ pinch' = [scale |-> <<1, 1>>, dx |-> 0, dy |-> 0, fingers |-> f,
                 active |-> TRUE]
    /\ lastOp' = Op("PINCH_BEGIN", << f, "" >>, 0, "", "", "", pinch.active)
    /\ steps' = steps + 1
    /\ UNCHANGED << swipe, config_vars, pc, executed, exact >>

\* faulty variant: the motion of a pinch is added to the swipe accumulators
PinchUpdateIntoSwipe(step, ddx, ddy) ==
    /\ pc = "drain"
    /\ pending # << >> /\ Head(pending) = "PINCH_UPDATE"
    /\ pending' = Tail(pending)
    /\ pinch' = [pinch EXCEPT !.scale = MulScale(pinch.scale, step)]
    /\ swipe' = [swipe EXCEPT !.dx = AddDouble(swipe.dx, ddx),
                              !.dy = AddDouble(swipe.dy, ddy)]
    /\ lastOp' = Event("PINCH_UPDATE", pinch.active)
    /\ steps' = steps + 1
    /\ UNCHANGED << config_vars, pc, executed, exact >>

\* case LIBINPUT_EVENT_GESTURE_PINCH_UPDATE
PinchUpdate(step, ddx, ddy) ==
    /\ pc = "drain"
    /\ pending # << >> /\ Head(pending) = "PINCH_UPDATE"
    /\ pending' = Tail(pending)
    /\ pinch' = [pinch EXCEPT !.scale = MulScale(pinch.scale, step),
                              !.dx = AddDouble(pinch.dx, ddx),
                              !.dy = AddDouble(pinch.dy, ddy)]
    /\ lastOp' = Event("PINCH_UPDATE", pinch.active)
    /\ steps' = steps + 1
    /\ UNCHANGED << swipe, config_vars, pc, executed, exact >>

\* faulty variant: the end of a pinch repeats the dispatch of the swipe case
PinchEndDispatching ==
    /\ pc = "drain"
    /\ pending # << >> /\ Head(pending) = "PINCH_END"
    /\ pending' = Tail(pending)
    /\ pinch' = [pinch EXCEPT !.active = FALSE]
    /\ LET direction == Classify(swipe.dx, swipe.dy)
           d == Dispatch(gesture_bindings, swipe.fingers, direction)
       IN  /\ executed' = executed \o d[1]
           /\ lastOp' = Op("PINCH_END", NoKey, 0, "", "", d[2], pinch.active)
    /\ steps' = steps + 1
    /\ UNCHANGED << swipe, config_vars, pc, exact >>

\* case LIBINPUT_EVENT_GESTURE_PINCH_END
PinchEnd ==
    /\ pc = "drain"
    /\ pending # << >> /\ Head(pending) = "PINCH_END"
    /\ pending' = Tail(pending)
    /\ pinch' = [pinch EXCEPT !.active = FALSE]
    /\ lastOp' = Op("PINCH_END", NoKey, 0, "", "", ClassifyPinch(pinch.scale),
                    pinch.active)
    /\ steps' = steps + 1
    /\ UNCHANGED << swipe, config_vars, pc, executed, exact >>

\* case LIBINPUT_EVENT_GESTURE_HOLD_BEGIN
HoldBegin ==
    /\ pc = "drain"
    /\ pending # << >> /\ Head(pending) = "HOLD_BEGIN"
    /\ pending' = Tail(pending)
    /\ lastOp' = Event("HOLD_BEGIN", FALSE)
    /\ steps' = steps + 1
    /\ UNCHANGED << swipe, pinch, config_vars, pc, executed, exact >>

\* case LIBINPUT_EVENT_GESTURE_HOLD_END
HoldEnd ==
    /\ pc = "drain"
    /\ pending # << >> /\ Head(pending) = "HOLD_END"
    /\ pending' = Tail(pending)
    /\ lastOp' = Event("HOLD_END", FALSE)
    /\ steps' = steps + 1
    /\ UNCHANGED << swipe, pinch, config_vars, pc, executed, exact >>

\* case LIBINPUT_EVENT_POINTER_AXIS and default
OtherEvent ==
    /\ pc = "drain"
    /\ pending # << >> /\ Head(pending) = "OTHER"
    /\ pending' = Tail(pending)
    /\ lastOp' = Event("OTHER", FALSE)
    /\ steps' = steps + 1
    /\ UNCHANGED << swipe, pinch, config_vars, pc, executed, exact >>

----------------------------------------------------------------------------
(* The frame: "Add" button, prune and re-sync, the eight combo boxes *)

NoClick == [key |-> NoKey, idx |-> 0]

\* the display loops: selected_command_indices[key] inserts 0 for a key it
\* does not hold; a clicked Selectable stores its index and sets the binding
RECURSIVE DisplayFrom(_, _, _, _, _)
DisplayFrom(b, sel, cmds, click, i) ==
    IF i > Len(DisplayKeys) THEN << b, sel >>
    ELSE LET key  == DisplayKeys[i]
             sel1 == IF key \in DOMAIN sel THEN sel ELSE Put(sel, key, 0)
         IN  IF click.key = key
             THEN DisplayFrom(setBinding(b, key, cmds[click.idx + 1]),
                              Put(sel1, key, click.idx), cmds, click, i + 1)
             ELSE DisplayFrom(b, sel1, cmds, click, i + 1)

\* everything from the rebuild of all_commands to the end of the display
\* loops, for the user_commands as left by the "Add" button
FrameBody(b, uc, click) ==
    LET all_commands == AllCommands(uc)
        pruned       == pruneStaleBindings(b, all_commands)
        synced       == sync_selected_commands([k \in {} |-> 0], pruned,
                                               all_commands)
    IN  DisplayFrom(pruned, synced, all_commands, click, 1)

\* the keys the prune of a frame erases
PrunedKeys(b, uc) ==
    (DOMAIN b) \ DOMAIN pruneStaleBindings(b, AllCommands(uc))

\* a frame in which nothing is clicked
FrameIdle ==
    /\ pc = "frame"
    /\ LET r == FrameBody(gesture_bindings, user_commands, NoClick)
       IN  /\ gesture_bindings' = r[1]
           /\ selected_command_indices' = r[2]
    /\ lastPruned' = PrunedKeys(gesture_bindings, user_commands)
    /\ pc' = "loop"
    /\ UNCHANGED << swipe, pinch, user_commands, pending, executed, lastOp,
                    steps, exact >>

\* a frame in which "Add" is pressed with text in the input box
FrameAdd(text) ==
    /\ pc = "frame"
    /\ LET uc == addCustomAction(user_commands, text)
           r  == FrameBody(gesture_bindings, uc, NoClick)
       IN  /\ user_commands' = uc
           /\ gesture_bindings' = r[1]
           /\ selected_command_indices' = r[2]
           /\ lastPruned' = PrunedKeys(gesture_bindings, uc)
    /\ lastOp' = Op("ADD", NoKey, 0, text, "", "", FALSE)
    /\ steps' = steps + 1
    /\ pc' = "loop"
    /\ UNCHANGED << swipe, pinch, pending, executed, exact >>

\* a frame in which entry i of the combo box of key is clicked
FrameSelect(key, i) ==
    /\ pc = "frame"
    /\ i < Len(AllCommands(user_commands))
    /\ LET r == FrameBody(gesture_bindings, user_commands,
                          [key |-> key, idx |-> i])
       IN  /\ gesture_bindings' = r[1]
           /\ selected_command_indices' = r[2]
    /\ lastPruned' = PrunedKeys(gesture_bindings, user_commands)
    /\ lastOp' = Op("SELECT", key, i, AllCommands(user_commands)[i + 1],
                    Lookup(gesture_bindings, key), "", FALSE)
    /\ steps' = steps + 1
    /\ pc' = "loop"
    /\ UNCHANGED << swipe, pinch, user_commands, pending, executed, exact >>

----------------------------------------------------------------------------
(* Specification *)

\* the steps of the control loop that handle no input
LoopStep ==
    \/ WindowClosed
    \/ PollEmpty
    \/ DispatchFailed
    \/ DrainDone
    \/ FrameIdle

SwipeEventOf(samples) ==
    \/ \E f \in SwipeFingers : SwipeBegin(f)
    \/ \E s \in samples : SwipeUpdate(s[1], s[2])
    \/ SwipeEnd

SwipeEvent == SwipeEventOf(SwipeSamples)

OtherGestureEvent ==
    \/ \E f \in PinchFingers : PinchBegin(f)
    \/ \E s \in PinchSamples : PinchUpdate(s[1], s[2], s[3])
    \/ PinchEnd
    \/ HoldBegin
    \/ HoldEnd
    \/ OtherEvent

Click ==
    \/ \E t \in CustomTexts : FrameAdd(t)
    \/ \E k \in ClickKeys : \E i \in ClickRows : FrameSelect(k, i)

\* a poll that finds events of the given types, no more than the run has
\* inputs left
Poll(budget, types) ==
    \E n \in 0..MaxBatch :
        /\ n <= budget - steps
        /\ \E events \in [1..n -> types] : PollReady(events)

\* the whole program
Next ==
    \/ LoopStep
    \/ Poll(MaxSteps, SwipeTypes \cup OtherGestureTypes)
    \/ steps < MaxSteps /\ SwipeEventOf(SwipeMotions)
    \/ steps < MaxSteps /\ OtherGestureEvent
    \/ steps < MaxSteps /\ Click

Spec == Init /\ [][Next]_vars

\* the program when only swipe events arrive and nothing is clicked
NextSwipe ==
    \/ LoopStep
    \/ Poll(MaxSwipeSteps, SwipeTypes)
    \/ steps < MaxSwipeSteps /\ SwipeEvent

SpecSwipe == Init /\ [][NextSwipe]_vars

\* the program when only pinch events arrive and nothing is clicked
PinchEvent ==
    \/ \E f \in PinchFingers : PinchBegin(f)
    \/ \E step \in PinchScaleSteps : PinchUpdate(step, 0, 0)
    \/ PinchEnd

NextPinch ==
    \/ LoopStep
    \/ Poll(MaxPinchSteps, PinchTypes)
    \/ steps < MaxPinchSteps /\ PinchEvent

SpecPinch == Init /\ [][NextPinch]_vars

----------------------------------------------------------------------------
(* The prune on arbitrary tables *)

\* The program itself never takes a command out of the catalog, so no run
\* from Init ever gives the prune loop an entry to erase.  To check the loop
\* on the tables it is written for (a bound command that is no longer in the
\* catalog), the frame is run from every table over PruneKeys and
\* PruneValues.

PruneKeys == { <<3, "RIGHT">>, <<4, "DOWN">>, <<4, "UP">> }

PruneValues == { "gnome-terminal", "lock-screen", "removed-action" }

PruneTables == UNION { [S -> PruneValues] : S \in SUBSET PruneKeys }

InitPrune ==
    /\ swipe = [dx |-> 0, dy |-> 0, active |-> FALSE, fingers |-> 0]
    /\ pinch = [scale |-> <<1, 1>>, dx |-> 0, dy |-> 0, fingers |-> 0,
                active |-> FALSE]
    /\ gesture_bindings \in PruneTables
    /\ selected_command_indices = [k \in {} |-> 0]
    /\ user_commands \in { << >>, << "lock-screen" >> }
    /\ pc = "frame"
    /\ pending = << >>
    /\ executed = << >>
    /\ lastOp = Event("", FALSE)
    /\ steps = 0
    /\ exact = [dx |-> 0, dy |-> 0, ok |-> TRUE]
    /\ lastPruned = {}

NextPrune ==
    \/ PollEmpty
    \/ FrameIdle
    \/ steps < MaxSteps /\ \E t \in CustomTexts : FrameAdd(t)

SpecPrune == InitPrune /\ [][NextPrune]_vars

\* the frames with every click, from the same tables
NextConfig ==
    \/ PollEmpty
    \/ FrameIdle
    \/ steps < MaxConfigSteps /\ Click

SpecConfig == InitPrune /\ [][NextConfig]_vars

----------------------------------------------------------------------------
(* Properties *)

\* a step that handles the input recorded in lastOp'
Handled(kind) == steps' = steps + 1 /\ lastOp'.kind = kind

NoDuplicates(seq) ==
    \A i, j \in 1..Len(seq) : seq[i] = seq[j] => i = j

\* C1: at every swipe End the verdict follows the threshold rule on the
\* accumulated (dx, dy): if |dx| > |dy| it is RIGHT for dx > 50, LEFT for
\* dx < -50 and none otherwise; else (ties included) it is DOWN for dy > 50,
\* UP for dy < -50 and none otherwise.  dx = 50, dy = 0 gives none, dx = 51
\* gives RIGHT, dx = dy = 60 gives DOWN.
C1_SwipeVerdict ==
    lastOp.kind = "SWIPE_END" =>
        LET dx == swipe.dx
            dy == swipe.dy
            v  == lastOp.key[2]
        IN  /\ (Abs(dx) > Abs(dy) /\ dx > 50) => v = "RIGHT"
            /\ (Abs(dx) > Abs(dy) /\ dx < -50) => v = "LEFT"
            /\ (Abs(dx) > Abs(dy) /\ dx >= -50 /\ dx <= 50) => v = ""
            /\ (Abs(dy) >= Abs(dx) /\ dy > 50) => v = "DOWN"
            /\ (Abs(dy) >= Abs(dx) /\ dy < -50) => v = "UP"
            /\ (Abs(dy) >= Abs(dx) /\ dy >= -50 /\ dy <= 50) => v = ""
            /\ (dx = 50 /\ dy = 0) => v = ""
            /\ (dx = 51 /\ dy = 0) => v = "RIGHT"
            /\ (dx = 60 /\ dy = 60) => v = "DOWN"

\* a swipe has ended on the tie dx = dy = 60 and was classified DOWN
C1_Witness ==
    /\ lastOp.kind = "SWIPE_END"
    /\ swipe.dx = 60 /\ swipe.dy = 60
    /\ lastOp.key[2] = "DOWN"

\* C2: when a swipe End yields a verdict d for recorded finger count f, the
\* executor is invoked exactly once, with the command the table binds to
\* (f, d), if there is one; otherwise it is not invoked and a miss is
\* reported.  The table and the catalog are unchanged by the dispatch.
C2_Dispatch ==
    [][ (Handled("SWIPE_END") /\ lastOp'.key[2] # "") =>
            LET k == lastOp'.key
            IN  /\ k[1] = swipe.fingers
                /\ IF k \in DOMAIN gesture_bindings
                   THEN /\ executed' = Append(executed, gesture_bindings[k])
                        /\ lastOp'.report = "Running command"
                   ELSE /\ executed' = executed
                        /\ lastOp'.report = "No binding found"
                /\ gesture_bindings' = gesture_bindings
                /\ user_commands' = user_commands ]_vars

\* a 4-finger swipe DOWN has run the command bound to it
C2_Witness ==
    /\ lastOp.kind = "SWIPE_END"
    /\ lastOp.key = <<4, "DOWN">>
    /\ lastOp.report = "Running command"
    /\ executed = << "gnome-terminal" >>
    /\ Lookup(gesture_bindings, <<4, "DOWN">>) = "gnome-terminal"

\* C3: every command that is a value of the binding table is an entry of
\* the catalog, in every state reached by adding custom commands, choosing
\* combo entries, frames and gesture events.
C3_BindingsInCatalog ==
    \A k \in DOMAIN gesture_bindings :
        gesture_bindings[k] \in Range(AllCommands(user_commands))

\* a custom command is bound and the catalog has grown since
C3_Witness ==
    /\ Lookup(gesture_bindings, <<4, "DOWN">>) = "lock-screen"
    /\ Len(user_commands) = 2
    /\ lastOp.kind = "ADD"

\* C4: while a swipe or pinch session is not active, an Update leaves its
\* accumulators as they were: between an End and the next Begin dx, dy and
\* (for pinch) scale are not changed.
C4_IdleUpdateIgnored ==
    [][ /\ (~swipe.active /\ ~swipe'.active) =>
               (swipe'.dx = swipe.dx /\ swipe'.dy = swipe.dy)
        /\ (~pinch.active /\ ~pinch'.active) =>
               (pinch'.dx = pinch.dx /\ pinch'.dy = pinch.dy
                /\ pinch'.scale = pinch.scale) ]_vars

\* C5: a swipe End that arrives while the session is not active is ignored:
\* it produces no verdict and invokes no command.
C5_IdleEndIgnored ==
    (lastOp.kind = "SWIPE_END" /\ ~lastOp.wasActive) =>
        (lastOp.key[2] = "" /\ lastOp.report = "" /\ lastOp.cmd = "")

\* C6: after any sequence of addCustomAction calls the catalog (sentinel,
\* built-in and custom entries) holds no two equal entries.
C6_CatalogNoDuplicates ==
    NoDuplicates(AllCommands(user_commands))

\* C7: setBinding is idempotent: choosing for key K the command K is already
\* bound to, or choosing "None" for a key that is unbound, leaves the table
\* as it is; so does choosing the same entry for the same key twice in a row.
C7_SetBindingIdempotent ==
    [][ Handled("SELECT") =>
            LET K == lastOp'.key
                a == lastOp'.cmd
            IN  /\ (a # "None" /\ Lookup(gesture_bindings, K) = a)
                       => gesture_bindings' = gesture_bindings
                /\ (a = "None" /\ K \notin DOMAIN gesture_bindings)
                       => gesture_bindings' = gesture_bindings
                /\ (lastOp.kind = "SELECT" /\ lastOp.key = K /\ lastOp.cmd = a)
                       => gesture_bindings' = gesture_bindings ]_vars

\* the same command has been chosen for a key that was already bound to it
C7_Witness ==
    /\ lastOp.kind = "SELECT"
    /\ lastOp.cmd = "gnome-terminal"
    /\ lastOp.before = "gnome-terminal"
    /\ Lookup(gesture_bindings, lastOp.key) = "gnome-terminal"

\* C8: setBinding(key, a) changes the entry of key only: afterwards key is
\* unbound if a is "None" and bound to a otherwise, every other key is bound
\* as before, and the catalog is as before.
C8_SetBindingFrame ==
    [][ Handled("SELECT") =>
            LET K == lastOp'.key
                a == lastOp'.cmd
            IN  /\ a = "None" => K \notin DOMAIN gesture_bindings'
                /\ a # "None" => (K \in DOMAIN gesture_bindings'
                                  /\ gesture_bindings'[K] = a)
                /\ \A k \in Keys \ {K} :
                       /\ k \in DOMAIN gesture_bindings'
                              <=> k \in DOMAIN gesture_bindings
                       /\ Lookup(gesture_bindings', k)
                              = Lookup(gesture_bindings, k)
                /\ DOMAIN gesture_bindings' \subseteq Keys
                /\ user_commands' = user_commands ]_vars

\* a bound key has been rebound to another command while a second key
\* stays bound
C8_Witness ==
    /\ lastOp.kind = "SELECT"
    /\ lastOp.cmd # "None"
    /\ lastOp.before \notin { "", lastOp.cmd }
    /\ Lookup(gesture_bindings, lastOp.key) = lastOp.cmd
    /\ Cardinality(DOMAIN gesture_bindings) = 2

\* C9: the prune of a frame erases exactly the entries whose command is not
\* in the catalog of that frame and keeps every other entry with its value,
\* also in a frame that adds a custom command.
C9_PruneExact ==
    [][ (pc = "frame" /\ pc' = "loop") =>
            LET catalog == Range(AllCommands(user_commands'))
            IN  \A k \in Keys :
                    /\ k \in DOMAIN gesture_bindings'
                           <=> (k \in DOMAIN gesture_bindings
                                /\ gesture_bindings[k] \in catalog)
                    /\ k \in DOMAIN gesture_bindings'
                           => gesture_bindings'[k] = gesture_bindings[k] ]_vars

\* the stale binding of (4, DOWN) has been erased and the valid binding of
\* (3, RIGHT) has survived
C9_Witness ==
    /\ pc = "loop"
    /\ lastPruned = { <<4, "DOWN">> }
    /\ <<4, "DOWN">> \notin DOMAIN gesture_bindings
    /\ Lookup(gesture_bindings, <<3, "RIGHT">>) = "lock-screen"
    /\ lastOp.kind = "ADD"

C11_PinchVerdict ==
    lastOp.kind = "PINCH_END" =>
        LET n == pinch.scale[1]
            d == pinch.scale[2]
            v == lastOp.report
        IN  /\ v \in { "zoom-in", "zoom-out", "neutral" }
            /\ v = "zoom-in" <=> 10 * n > 11 * d
            /\ v = "zoom-out" <=> 10 * n < 9 * d
            /\ v = "neutral" <=> (10 * n <= 11 * d /\ 10 * n >= 9 * d)
            /\ pinch.scale \in { <<11, 10>>, <<9, 10>>, <<1, 1>> } => v = "neutral"
            /\ pinch.scale = <<6, 5>> => v = "zoom-in"
            /\ pinch.scale = <<4, 5>> => v = "zoom-out"

\* a pinch begun, scaled by exactly 1.1 and ended was reported neutral
C11_Witness ==
    /\ lastOp.kind = "PINCH_END"
    /\ lastOp.wasActive
    /\ pinch.scale = <<11, 10>>
    /\ lastOp.report = "neutral"

\* the reports of a table lookup made for dispatch
DispatchReports == { "Running command", "No binding found" }

\* C12: the executor is invoked, and the table is looked up for dispatch,
\* only while a swipe End is handled: no swipe Begin or Update, no pinch or
\* hold event and no configuration operation does either.
C12_ExecutorOnlyAtSwipeEnd ==
    [][ /\ executed' # executed => Handled("SWIPE_END")
        /\ (steps' # steps /\ lastOp'.report \in DispatchReports)
               => lastOp'.kind = "SWIPE_END"
        /\ (steps' # steps /\ lastOp'.kind # "SWIPE_END")
               => (executed' = executed /\ lastOp'.report \notin DispatchReports)
      ]_vars

\* a pinch begun while the table held a binding has ended with a zoom-in
\* verdict, and nothing was executed
C12_Witness ==
    /\ lastOp.kind = "PINCH_END"
    /\ lastOp.wasActive
    /\ lastOp.report = "zoom-in"
    /\ DOMAIN gesture_bindings # {}
    /\ executed = << >>

\* C13: a swipe End whose accumulated motion yields no verdict makes no
\* dispatch attempt: the table is not looked up, nothing is reported and the
\* executor is not invoked, even when bindings exist for that finger count.
C13_NoVerdictNoDispatch ==
    [][ (Handled("SWIPE_END") /\ lastOp'.key[2] = "") =>
            /\ executed' = executed
            /\ lastOp'.report = ""
            /\ lastOp'.cmd = ""
            /\ UNCHANGED config_vars
      ]_vars

\* a 3-finger swipe of dx = 50 ended without verdict while a 3-finger binding
\* existed, and nothing was executed
C13_Witness ==
    /\ lastOp.kind = "SWIPE_END"
    /\ lastOp.wasActive
    /\ lastOp.key = << 3, "" >>
    /\ swipe.dx = 50 /\ swipe.dy = 0
    /\ \E k \in DOMAIN gesture_bindings : k[1] = 3
    /\ executed = << >>

\* the catalog is the sentinel, the six built-in entries in their order, then
\* the custom commands; the empty string is not an entry
CatalogShape ==
    LET cat == AllCommands(user_commands)
    IN  /\ Len(cat) = 7 + Len(user_commands)
        /\ cat[1] = "None"
        /\ SubSeq(cat, 1, 7) =
              << "None", "notify-send 'Gesture Triggered'", "gnome-terminal",
                 "google-chrome", "playerctl play-pause", "playerctl next",
                 "playerctl previous" >>
        /\ SubSeq(cat, 8, Len(cat)) = user_commands
        /\ \A i \in 1..Len(cat) : cat[i] # ""

\* C14: in every reachable state the catalog has the sentinel first, then the
\* built-in entries in fixed order, then the custom entries in the order they
\* were added; the catalog changes only by an Add appending its text, no
\* entry is removed or moved, and the empty string is never an entry.
C14_CatalogAppendOnly ==
    /\ []CatalogShape
    /\ [][ \/ user_commands' = user_commands
           \/ /\ Handled("ADD")
              /\ lastOp'.cmd # ""
              /\ user_commands' = Append(user_commands, lastOp'.cmd)
         ]_vars

\* a second custom command has just been added behind the first
C14_Witness ==
    /\ lastOp.kind = "ADD"
    /\ Len(user_commands) = 2
    /\ user_commands[2] = lastOp.cmd
    /\ user_commands[1] # lastOp.cmd

\* a step that runs one frame of the window
FrameStep == pc = "frame" /\ pc' = "loop"

\* the key whose combo box was clicked in the frame, NoKey if none was
ClickedKey ==
    IF steps' # steps /\ lastOp'.kind = "SELECT" THEN lastOp'.key ELSE NoKey

\* C15: after the prune and re-sync of every frame, and when the combo boxes
\* are displayed, each of the 8 keys has a selection index that is a valid
\* index into the catalog; it is the position of the key's command when the
\* key is bound and 0 when it is unbound, so the catalog entry at the index
\* is the bound command or the sentinel, also after a binding was removed or
\* pruned.  (The index of the key clicked in the frame is the clicked row.)
C15_SelectionIndexValid ==
    [][ FrameStep =>
          LET cat == AllCommands(user_commands')
              b   == gesture_bindings'
              sel == selected_command_indices'
          IN  /\ DOMAIN b \subseteq Keys
              /\ \A k \in Keys :
                    /\ k \in DOMAIN sel
                    /\ sel[k] \in 0..(Len(cat) - 1)
                    /\ k \in DOMAIN b => cat[sel[k] + 1] = b[k]
                    /\ k \notin DOMAIN b => cat[sel[k] + 1] = "None"
                    /\ (k # ClickedKey /\ k \in DOMAIN b) =>
                           \A j \in 0..(sel[k] - 1) : cat[j + 1] # b[k]
                    /\ (k # ClickedKey /\ k \notin DOMAIN b) => sel[k] = 0
      ]_vars

\* a frame has pruned a binding, whose key now shows the sentinel at index 0,
\* while another key is still bound and shows its command
C15_Witness ==
    /\ \E k \in lastPruned :
          k \notin DOMAIN gesture_bindings /\ selected_command_indices[k] = 0
    /\ \E k \in DOMAIN gesture_bindings : selected_command_indices[k] > 0

\* C16: bindings exist only for the 8 keys {3,4} x {LEFT,RIGHT,UP,DOWN}: the
\* key set of the table is always a subset of them, so a swipe whose recorded
\* finger count is not 3 or 4 is classified as any other but its dispatch is
\* a miss and the executor is not invoked.
C16_OnlyEightKeys ==
    /\ [](DOMAIN gesture_bindings \subseteq
              { << f, d >> : f \in {3, 4}, d \in {"LEFT", "RIGHT", "UP", "DOWN"} })
    /\ [][ (Handled("SWIPE_END") /\ swipe.fingers \notin {3, 4}) =>
              /\ lastOp'.key = << swipe.fingers, Classify(swipe.dx, swipe.dy) >>
              /\ executed' = executed
              /\ lastOp'.cmd = ""
              /\ lastOp'.key[2] # "" => lastOp'.report = "No binding found"
         ]_vars

\* a 5-finger swipe was classified DOWN while 4-finger DOWN was bound, and
\* its dispatch was a miss
C16_Witness ==
    /\ lastOp.kind = "SWIPE_END"
    /\ lastOp.wasActive
    /\ lastOp.key = << 5, "DOWN" >>
    /\ lastOp.report = "No binding found"
    /\ << 4, "DOWN" >> \in DOMAIN gesture_bindings
    /\ executed = << >>

\* a step that handles a device event
EventStep == steps' # steps /\ lastOp'.kind \notin { "ADD", "SELECT" }

\* C17: within one iteration of the control loop the pending events are
\* handled in arrival order and the queue is drained before any
\* configuration operation of that iteration runs: a frame starts only with
\* the queue empty, every handled event is the oldest pending one, the table,
\* the selection indices and the catalog change only in frames, and so the
\* lookup of every dispatch is made in the table as the last frame left it.
C17_DrainBeforeFrame ==
    /\ [](pc = "frame" => pending = << >>)
    /\ [][ EventStep =>
              /\ pc = "drain" /\ pc' = "drain"
              /\ pending # << >>
              /\ lastOp'.kind = Head(pending)
              /\ pending' = Tail(pending)
              /\ UNCHANGED config_vars
         ]_vars
    /\ [][ ~UNCHANGED config_vars => (FrameStep /\ pending = << >>) ]_vars
    /\ [][ Handled("SWIPE_END") =>
              lastOp'.before = Lookup(gesture_bindings, lastOp'.key) ]_vars

\* in the middle of a drain: a swipe Update has been handled, the End that
\* arrived after it is still pending, and the table holds a binding
C17_Witness ==
    /\ pc = "drain"
    /\ lastOp.kind = "SWIPE_UPDATE"
    /\ pending = << "SWIPE_END" >>
    /\ DOMAIN gesture_bindings # {}

\* C18: swipe and pinch sessions are independent: every swipe event leaves
\* the pinch session unchanged, every pinch event leaves the swipe session
\* unchanged and executes nothing, and hold events leave both sessions, the
\* table and the catalog unchanged; so the accumulators a swipe End
\* classifies hold the swipe Updates alone, whatever pinch events came
\* between them.
C18_SessionsIndependent ==
    [][ /\ (EventStep /\ lastOp'.kind \in SwipeTypes) => pinch' = pinch
        /\ (EventStep /\ lastOp'.kind \in PinchTypes) =>
               (swipe' = swipe /\ executed' = executed)
        /\ (EventStep /\ lastOp'.kind \in { "HOLD_BEGIN", "HOLD_END" }) =>
               /\ swipe' = swipe /\ pinch' = pinch
               /\ gesture_bindings' = gesture_bindings
               /\ user_commands' = user_commands
               /\ executed' = executed
        /\ (Handled("SWIPE_END") /\ exact.ok) =>
               /\ swipe.dx = exact.dx /\ swipe.dy = exact.dy
               /\ lastOp'.key[2] = Classify(exact.dx, exact.dy)
      ]_vars

\* a swipe session with a pinch Update in the middle has ended with a verdict
C18_Witness ==
    /\ lastOp.kind = "SWIPE_END"
    /\ lastOp.wasActive
    /\ lastOp.key[2] # ""
    /\ pinch.scale # <<1, 1>>
    /\ pinch.dx # 0

\* C19: a swipe (pinch) Begin sets active, records the event's finger count
\* and resets dx and dy to 0 (and scale to 1) in whatever state the session
\* was, also when it was already active; End clears active; the finger count
\* is changed only by Begin, so the key of a dispatch carries the finger
\* count of the most recent Begin, and the verdict at End is that of the
\* Updates received since that Begin.
C19_BeginResets ==
    [][ /\ Handled("SWIPE_BEGIN") =>
               swipe' = [dx |-> 0, dy |-> 0, active |-> TRUE,
                         fingers |-> lastOp'.key[1]]
        /\ Handled("PINCH_BEGIN") =>
               pinch' = [scale |-> <<1, 1>>, dx |-> 0, dy |-> 0,
                         fingers |-> lastOp'.key[1], active |-> TRUE]
        /\ Handled("SWIPE_END") =>
               /\ ~swipe'.active
               /\ lastOp'.key[1] = swipe.fingers
               /\ exact.ok => lastOp'.key[2] = Classify(exact.dx, exact.dy)
        /\ Handled("PINCH_END") => ~pinch'.active
        /\ swipe'.fingers # swipe.fingers => Handled("SWIPE_BEGIN")
        /\ pinch'.fingers # pinch.fingers => Handled("PINCH_BEGIN")
        /\ (swipe'.active /\ ~swipe.active) => Handled("SWIPE_BEGIN")
        /\ (pinch'.active /\ ~pinch.active) => Handled("PINCH_BEGIN")
      ]_vars

\* a 4-finger swipe Begin has arrived while a swipe session was active: the
\* session is active with 4 fingers and empty accumulators
C19_Witness ==
    /\ lastOp.kind = "SWIPE_BEGIN"
    /\ lastOp.wasActive
    /\ lastOp.key[1] = 4
    /\ swipe = [dx |-> 0, dy |-> 0, active |-> TRUE, fingers |-> 4]

\* C20: in every reachable state no entry of the table has the sentinel
\* "None" or the empty string as its value, and the executor is never invoked
\* with either; choosing a catalog entry equal to the sentinel, a custom
\* entry spelled "None" included, removes the key instead of binding it.
C20_SentinelNeverBound ==
    /\ [](/\ \A k \in DOMAIN gesture_bindings :
               gesture_bindings[k] \notin { "None", "" }
          /\ \A i \in 1..Len(executed) : executed[i] \notin { "None", "" })
    /\ [][ (Handled("SELECT") /\ lastOp'.cmd = "None") =>
               lastOp'.key \notin DOMAIN gesture_bindings' ]_vars

\* the custom entry "None" at row 7 was chosen for a bound key, which is now
\* unbound
C20_Witness ==
    /\ lastOp.kind = "SELECT"
    /\ lastOp.idx = 7
    /\ lastOp.cmd = "None"
    /\ lastOp.before # ""
    /\ lastOp.key \notin DOMAIN gesture_bindings

============================================================================
